---- MODULE Spec2Model ----
(***************************************************************************)
(* A model of src/App.jsx: the path router (useWorkRoute and its helpers), *)
(* the attack simulator (simulateAttack over the demo tables) and the RSA  *)
(* lab (egcd, modInv, trialFactor, RSALevel.compute).                      *)
(*                                                                         *)
(* A JavaScript string is a sequence of one-character strings, so that     *)
(* startsWith, slice, replace and split are computed and not assumed.      *)
(***************************************************************************)
EXTENDS Integers, Sequences, FiniteSets, TLC

VARIABLES
    BASE_URL,   \* import.meta.env.BASE_URL, fixed by the build
    entries,    \* the session history: the pathname of every entry
    index,      \* the position of the current entry in entries
    workId,     \* the state cell of useWorkRoute
    trail,      \* history variable: the last router event and what preceded it
    idBefore,   \* history variable: workId before the navigate the trail is about
    lastNavId,  \* history variable: the argument of the navigate that ran last
    fnPath,     \* argument of a parseWorkId call
    fnOut,      \* its result
    targetId,   \* WorkAttackSim state
    methodKey,
    result,
    attacked,   \* history variable: the (account, method) the result was computed for
    level,      \* RSALevel: def.key
    p, q, n, e, d, hint, out,   \* RSALevel state cells
    edits,      \* number of field edits so far
    lastOp,     \* history variable: the last RSALevel handler that ran
    argA, argM, ret   \* a modInv call and its result

routerVars == <<BASE_URL, entries, index, workId, trail, idBefore, lastNavId>>
fnVars == <<fnPath, fnOut>>
attackVars == <<targetId, methodKey, result, attacked>>
rsaVars == <<level, p, q, n, e, d, hint, out, edits, lastOp>>
modInvVars == <<argA, argM, ret>>
vars == <<routerVars, fnVars, attackVars, rsaVars, modInvVars>>

-----------------------------------------------------------------------------
(* Bounds of the model *)

MaxPathLen == 4     \* longest pathname handed to parseWorkId
MaxHist == 4        \* longest session history
MaxEdits == 3       \* field edits of one RSALevel
MaxIn == 9          \* largest integer typed into p, q, n or e
MaxA == 20          \* largest |a| handed to modInv
MaxM == 24          \* largest m handed to modInv

-----------------------------------------------------------------------------
(* Strings *)

Undefined == <<"undefined">>    \* the value undefined (not a string)

startsWith(s, prefix) ==
    /\ Len(prefix) <= Len(s)
    /\ SubSeq(s, 1, Len(prefix)) = prefix

endsWith(s, suffix) ==
    /\ Len(suffix) <= Len(s)
    /\ SubSeq(s, Len(s) - Len(suffix) + 1, Len(s)) = suffix

\* s.slice(k) for 0 <= k
sliceFrom(s, k) == SubSeq(s, k + 1, Len(s))

\* s.replace(/^\/+/, "")
RECURSIVE stripLeadingSlashes(_)
stripLeadingSlashes(s) ==
    IF s # <<>> /\ Head(s) = "/" THEN stripLeadingSlashes(Tail(s)) ELSE s

\* s.split("/"): the pieces between the slashes, empty pieces included
RECURSIVE split(_)
split(s) ==
    IF \E i \in 1..Len(s) : s[i] = "/"
    THEN LET i == CHOOSE k \in 1..Len(s) :
                      s[k] = "/" /\ \A j \in 1..(k - 1) : s[j] # "/"
         IN  <<SubSeq(s, 1, i - 1)>> \o split(sliceFrom(s, i))
    ELSE <<s>>

\* segments.filter(Boolean)
filterBoolean(segments) == SelectSeq(segments, LAMBDA x : x # <<>>)

-----------------------------------------------------------------------------
(* The router's pure helpers *)

WORK_KEYS == << <<"1">>, <<"2">>, <<"3">> >>
WORK_KEY_SET == {WORK_KEYS[i] : i \in DOMAIN WORK_KEYS}
DEFAULT_WORK_ID == <<"a", "l", "l">>

getNormalizedBasePath(envBase) ==
    LET base == IF envBase = Undefined THEN <<"/">> ELSE envBase
        withoutTrailingSlash ==
            IF endsWith(base, <<"/">>) THEN SubSeq(base, 1, Len(base) - 1) ELSE base
    IN  IF withoutTrailingSlash = <<>> THEN <<>>
        ELSE IF startsWith(withoutTrailingSlash, <<"/">>) THEN withoutTrailingSlash
        ELSE <<"/">> \o withoutTrailingSlash

stripBaseFromPath(pathname, envBase) ==
    LET normalizedBase == getNormalizedBasePath(envBase)
    IN  IF normalizedBase = <<>> THEN stripLeadingSlashes(pathname)
        ELSE IF startsWith(pathname, normalizedBase)
        THEN stripLeadingSlashes(sliceFrom(pathname, Len(normalizedBase)))
        ELSE stripLeadingSlashes(pathname)

\* A variant that takes the first segment without the known-key test.
parseWorkIdUnchecked(pathname, envBase) ==
    LET kept == filterBoolean(split(stripBaseFromPath(pathname, envBase)))
    IN  IF kept = <<>> THEN DEFAULT_WORK_ID ELSE kept[1]

parseWorkId(pathname, envBase) ==
    IF pathname = <<>> THEN DEFAULT_WORK_ID
    ELSE LET remainder == stripBaseFromPath(pathname, envBase)
         IN  IF remainder = <<>> THEN DEFAULT_WORK_ID
             ELSE LET kept == filterBoolean(split(remainder))
                      firstSegment == IF kept = <<>> THEN Undefined ELSE kept[1]
                  IN  IF firstSegment # Undefined /\ firstSegment \in WORK_KEY_SET
                      THEN firstSegment
                      ELSE DEFAULT_WORK_ID

buildPathFromWorkId(id, envBase) ==
    LET normalizedBase == getNormalizedBasePath(envBase)
    IN  IF id = DEFAULT_WORK_ID
        THEN (IF normalizedBase = <<>> THEN <<"/">> ELSE normalizedBase)
        ELSE normalizedBase \o <<"/">> \o id

-----------------------------------------------------------------------------
(* The host environment: build configuration, location and session history *)

\* Values of import.meta.env.BASE_URL: unset, "/", "", "/a/", "/a", "a/" and
\* "./" (a relative base, which the build hands to the page unchanged).
BaseUrls ==
    { Undefined, <<"/">>, <<>>, <<"/", "a", "/">>, <<"/", "a">>, <<"a", "/">>,
      <<".", "/">> }

\* The path segments the URL parser keeps of the first k segments of segs:
\* a "." segment is dropped, a ".." segment removes the segment before it, and
\* either of them in the last place leaves an empty last segment.
RECURSIVE keptSegments(_, _)
keptSegments(segs, k) ==
    IF k = 0 THEN <<>>
    ELSE LET before == keptSegments(segs, k - 1)
             seg == segs[k]
             last == (k = Len(segs))
         IN  IF seg = <<".", ".">>
             THEN (IF before = <<>> THEN <<>> ELSE SubSeq(before, 1, Len(before) - 1))
                  \o (IF last THEN <<(<<>>)>> ELSE <<>>)
             ELSE IF seg = <<".">>
             THEN before \o (IF last THEN <<(<<>>)>> ELSE <<>>)
             ELSE Append(before, seg)

RECURSIVE joinSegments(_)
joinSegments(segs) ==
    IF segs = <<>> THEN <<>> ELSE <<"/">> \o Head(segs) \o joinSegments(Tail(segs))

\* window.location.pathname after the browser has parsed the URL url, an
\* absolute path.
locationPathname(url) ==
    LET segs == split(Tail(url))
    IN  joinSegments(keptSegments(segs, Len(segs)))

\* The pathnames the page is loaded at.
LoadPaths ==
    { <<"/">>, <<"/", "1">>, <<"/", "2">>, <<"/", "1", "1">>, <<"/", "a">>,
      <<"/", "a", "/">>, <<"/", "a", "/", "3">>, <<"/", "a", "1">>,
      <<"/", "1", "/", "2">>, <<"/", "/", "2">> }

\* The arguments navigate is called with: the nav buttons' ids and ids that
\* are no work key.
NavIds == WORK_KEY_SET \cup {DEFAULT_WORK_ID, <<"4">>, <<>>}

pathname == entries[index]

-----------------------------------------------------------------------------
(* useWorkRoute *)

RouterIdle ==
    /\ BASE_URL = <<"/">>
    /\ entries = << <<"/">> >>
    /\ index = 1
    /\ workId = DEFAULT_WORK_ID
    /\ trail = "idle"
    /\ idBefore = DEFAULT_WORK_ID
    /\ lastNavId = Undefined

\* useState(getInitial)
getInitial(path) == parseWorkId(path, BASE_URL)

\* window.history.pushState({}, "", url): the entries after the current one
\* are dropped and the new entry becomes the current one.
pushState(url) ==
    /\ entries' = Append(SubSeq(entries, 1, index), locationPathname(url))
    /\ index' = index + 1

\* A handler that leaves the identifier as it is.
handlePopstateStale == workId' = workId

\* handlePopstate, run once the browser has moved to the new entry
handlePopstate == workId' = parseWorkId(entries[index'], BASE_URL)

\* navigate without the validation of its argument.
navigateUnvalidated(nextId) ==
    LET nextPath == buildPathFromWorkId(nextId, BASE_URL)
    IN  /\ IF pathname # nextPath
           THEN /\ index < MaxHist
                /\ pushState(nextPath)
                /\ trail' = "navigatePushed"
           ELSE /\ UNCHANGED <<entries, index>>
                /\ trail' = "navigateSame"
        /\ workId' = nextId
        /\ idBefore' = workId
        /\ lastNavId' = nextId
        /\ UNCHANGED BASE_URL

\* navigate without its setWorkId call.
navigateWithoutSetWorkId(nextId) ==
    LET normalized == IF nextId \in WORK_KEY_SET THEN nextId ELSE DEFAULT_WORK_ID
        nextPath == buildPathFromWorkId(normalized, BASE_URL)
    IN  /\ IF pathname # nextPath
           THEN /\ index < MaxHist
                /\ pushState(nextPath)
                /\ trail' = "navigatePushed"
           ELSE /\ UNCHANGED <<entries, index>>
                /\ trail' = "navigateSame"
        /\ workId' = workId
        /\ idBefore' = workId
        /\ lastNavId' = nextId
        /\ UNCHANGED BASE_URL

navigate(nextId) ==
    LET normalized == IF nextId \in WORK_KEY_SET THEN nextId ELSE DEFAULT_WORK_ID
        nextPath == buildPathFromWorkId(normalized, BASE_URL)
    IN  /\ IF pathname # nextPath
           THEN /\ index < MaxHist
                /\ pushState(nextPath)
                /\ trail' = "navigatePushed"
           ELSE /\ UNCHANGED <<entries, index>>
                /\ trail' = "navigateSame"
        /\ workId' = normalized
        /\ idBefore' = workId
        /\ lastNavId' = nextId
        /\ UNCHANGED BASE_URL

RouterInit ==
    /\ BASE_URL \in BaseUrls
    /\ \E path \in LoadPaths :
          /\ entries = <<path>>
          /\ workId = getInitial(path)
    /\ index = 1
    /\ trail = "load"
    /\ idBefore = workId
    /\ lastNavId = Undefined

Navigate ==
    /\ \E nextId \in NavIds : navigate(nextId)
    /\ UNCHANGED <<fnVars, attackVars, rsaVars, modInvVars>>

\* The browser's back button: the previous entry becomes current, then popstate.
Back ==
    /\ index > 1
    /\ index' = index - 1
    /\ handlePopstate
    /\ trail' = CASE trail = "navigatePushed" -> "backAfterPush"
                  [] trail = "navigateSame" -> "backAfterSame"
                  [] OTHER -> "back"
    /\ idBefore' = IF trail \in {"navigatePushed", "navigateSame"}
                   THEN idBefore ELSE workId
    /\ lastNavId' = Undefined
    /\ UNCHANGED <<BASE_URL, entries>>
    /\ UNCHANGED <<fnVars, attackVars, rsaVars, modInvVars>>

\* The browser's forward button.
Forward ==
    /\ index < Len(entries)
    /\ index' = index + 1
    /\ handlePopstate
    /\ trail' = "forward"
    /\ idBefore' = workId
    /\ lastNavId' = Undefined
    /\ UNCHANGED <<BASE_URL, entries>>
    /\ UNCHANGED <<fnVars, attackVars, rsaVars, modInvVars>>

\* App: which of the three blocks of <main> is rendered
WORK_SECTION_IDS == { <<"1">>, <<"2">>, <<"3">> }
rendersAllWorks == workId = DEFAULT_WORK_ID
rendersActiveWork == workId # DEFAULT_WORK_ID /\ workId \in WORK_SECTION_IDS
rendersNotFound == workId # DEFAULT_WORK_ID /\ workId \notin WORK_SECTION_IDS

-----------------------------------------------------------------------------
(* parseWorkId as a function of its argument *)

PathChars == {"/", "1", "2", "3", "a", "."}

PathsOfLen(k) == [1..k -> PathChars]
AllPaths == UNION {PathsOfLen(k) : k \in 0..MaxPathLen}

FnIdle == fnPath = <<>> /\ fnOut = Undefined

ParseInit ==
    /\ fnPath \in AllPaths
    /\ fnOut = Undefined
    /\ BASE_URL \in BaseUrls
    /\ entries = << <<"/">> >>
    /\ index = 1
    /\ workId = DEFAULT_WORK_ID
    /\ trail = "idle"
    /\ idBefore = DEFAULT_WORK_ID
    /\ lastNavId = Undefined

ParsePath ==
    /\ fnOut = Undefined
    /\ fnOut' = parseWorkId(fnPath, BASE_URL)
    /\ UNCHANGED <<fnPath, routerVars, attackVars, rsaVars, modInvVars>>

-----------------------------------------------------------------------------
(* The attack simulator *)

demoAccounts ==
    << [id |-> "userA",
        vulns |-> [reused |-> TRUE, weakPattern |-> TRUE, phishable |-> TRUE,
                   exposedEmail |-> TRUE],
        controls |-> [mfa |-> FALSE, pm |-> FALSE]],
       [id |-> "userB",
        vulns |-> [reused |-> FALSE, weakPattern |-> TRUE, phishable |-> TRUE,
                   exposedEmail |-> FALSE],
        controls |-> [mfa |-> TRUE, pm |-> FALSE]],
       [id |-> "userC",
        vulns |-> [reused |-> FALSE, weakPattern |-> FALSE, phishable |-> FALSE,
                   exposedEmail |-> TRUE],
        controls |-> [mfa |-> TRUE, pm |-> TRUE]] >>

attackMethods ==
    << [key |-> "leak", exploits |-> <<"reused">>, blockedBy |-> <<"mfa">>],
       [key |-> "phish", exploits |-> <<"phishable">>, blockedBy |-> <<"mfa">>],
       [key |-> "guess", exploits |-> <<"weakPattern">>, blockedBy |-> <<>>],
       [key |-> "social", exploits |-> <<"exposedEmail">>, blockedBy |-> <<"mfa">>] >>

\* The three reason texts of simulateAttack, by what they say.
NoMatchingVulnerability == [success |-> FALSE, reason |-> "noMatchingVulnerability"]
BlockedByControl == [success |-> FALSE, reason |-> "blockedByControl"]
LoginSucceeds == [success |-> TRUE, reason |-> "matchedAndUnblocked"]
NoResult == [success |-> FALSE, reason |-> "null"]

\* The two tests in the other order.
simulateAttackBlockFirst(account, method) ==
    IF \E i \in DOMAIN method.blockedBy : account.controls[method.blockedBy[i]]
    THEN BlockedByControl
    ELSE IF ~(\E i \in DOMAIN method.exploits : account.vulns[method.exploits[i]])
    THEN NoMatchingVulnerability
    ELSE LoginSucceeds

simulateAttack(account, method) ==
    LET hitVuln == \E i \in DOMAIN method.exploits : account.vulns[method.exploits[i]]
    IN  IF ~hitVuln THEN NoMatchingVulnerability
        ELSE IF \E i \in DOMAIN method.blockedBy : account.controls[method.blockedBy[i]]
        THEN BlockedByControl
        ELSE LoginSucceeds

\* demoAccounts.find(a => a.id === targetId), attackMethods.find(a => a.key === methodKey)
target == demoAccounts[CHOOSE i \in DOMAIN demoAccounts : demoAccounts[i].id = targetId]
method == attackMethods[CHOOSE i \in DOMAIN attackMethods : attackMethods[i].key = methodKey]

AttackInit ==
    /\ targetId = "userA"
    /\ methodKey = "leak"
    /\ result = NoResult
    /\ attacked = <<"none", "none">>

SetTargetId ==
    /\ \E i \in DOMAIN demoAccounts : targetId' = demoAccounts[i].id
    /\ UNCHANGED <<methodKey, result, attacked>>
    /\ UNCHANGED <<routerVars, fnVars, rsaVars, modInvVars>>

SetMethodKey ==
    /\ \E i \in DOMAIN attackMethods : methodKey' = attackMethods[i].key
    /\ UNCHANGED <<targetId, result, attacked>>
    /\ UNCHANGED <<routerVars, fnVars, rsaVars, modInvVars>>

Attack ==
    /\ result' = simulateAttack(target, method)
    /\ attacked' = <<targetId, methodKey>>
    /\ UNCHANGED <<targetId, methodKey>>
    /\ UNCHANGED <<routerVars, fnVars, rsaVars, modInvVars>>

ResetResult ==
    /\ result' = NoResult
    /\ attacked' = <<"none", "none">>
    /\ UNCHANGED <<targetId, methodKey>>
    /\ UNCHANGED <<routerVars, fnVars, rsaVars, modInvVars>>

-----------------------------------------------------------------------------
(* JavaScript values of the RSA lab *)

\* A number is an integer, NaN or (where a variable may hold it) null.
IntVal(i) == [k |-> "int", v |-> i]
NaN == [k |-> "nan", v |-> 0]
Null == [k |-> "null", v |-> 0]
\* What a call that exhausts the call stack throws.
RangeError == [k |-> "rangeError", v |-> 0]

\* A field holds the preset's number, or the text of the input element: '',
\* the decimal text of an integer, or a text that is no number.
Preset(i) == [k |-> "num", v |-> i]
Text(i) == [k |-> "text", v |-> i]
Junk == [k |-> "junk", v |-> 0]
Blank == [k |-> "blank", v |-> 0]

\* f ? ... : ...   for a field: '' and 0 are falsy, every other text is truthy
truthyField(f) == f.k \in {"text", "junk"} \/ (f.k = "num" /\ f.v # 0)

\* f ? Number(f) : null
fieldNumber(f) ==
    IF ~truthyField(f) THEN Null
    ELSE IF f.k = "junk" THEN NaN ELSE IntVal(f.v)

\* !!x for a number or null: null, NaN and 0 are falsy
truthy(x) == x.k = "int" /\ x.v # 0

abs(i) == IF i < 0 THEN -i ELSE i

\* a % b for integers, b # 0: the sign of the dividend
jsRem(a, b) == IF a >= 0 THEN a % abs(b) ELSE -((-a) % abs(b))

\* Math.floor(a / b) for integers, b # 0
floorDiv(a, b) == IF b > 0 THEN a \div b ELSE (-a) \div (-b)

-----------------------------------------------------------------------------
(* The RSA lab's arithmetic *)

\* egcd with the two coefficients of the inner call not exchanged.
RECURSIVE egcdNoSwap(_, _)
egcdNoSwap(a, b) ==
    IF b = 0 THEN [g |-> a, x |-> 1, y |-> 0]
    ELSE LET r == egcdNoSwap(b, jsRem(a, b))
         IN  [g |-> r.g, x |-> r.x, y |-> r.y - floorDiv(a, b) * r.x]

RECURSIVE egcd(_, _)
egcd(a, b) ==
    IF b = 0 THEN [g |-> a, x |-> 1, y |-> 0]
    ELSE LET r == egcd(b, jsRem(a, b))
             y1 == r.x
             x1 == r.y
         IN  [g |-> r.g, x |-> x1, y |-> y1 - floorDiv(a, b) * x1]

\* modInv without the final (x % m + m) % m.
modInvRaw(a, m) ==
    IF m = 0 THEN Null
    ELSE IF a.k = "nan" THEN RangeError
    ELSE LET r == egcd(jsRem(jsRem(a.v, m) + m, m), m)
         IN  IF r.g # 1 THEN Null ELSE IntVal(r.x)

\* modInv(a, m), a an integer, NaN or null (which % takes as 0), m an integer.
\*   m = 0: a % 0 is NaN and egcd(NaN, 0) returns g = NaN, so the result is null.
\*   a NaN, m # 0: egcd(NaN, m) calls egcd(m, NaN), egcd(NaN, NaN), ... and no
\*   call ever has b === 0: the call stack is exhausted.
modInv(a, m) ==
    IF m = 0 THEN Null
    ELSE IF a.k = "nan" THEN RangeError
    ELSE LET r == egcd(jsRem(jsRem(a.v, m) + m, m), m)
         IN  IF r.g # 1 THEN Null ELSE IntVal(jsRem(jsRem(r.x, m) + m, m))

\* for (let i = 2; i * i <= n; i++) from i on; <<>> is null
RECURSIVE trialFactorFrom(_, _)
trialFactorFrom(num, i) ==
    IF i * i > num THEN <<>>
    ELSE IF jsRem(num, i) = 0 THEN <<i, num \div i>>
    ELSE trialFactorFrom(num, i + 1)

trialFactor(num) == trialFactorFrom(num, 2)

rsaLevels ==
    << [key |-> "L1", given |-> [p |-> Preset(17), q |-> Preset(23), n |-> Blank, e |-> Preset(3)]],
       [key |-> "L2", given |-> [p |-> Preset(19), q |-> Preset(23), n |-> Preset(437), e |-> Preset(5)]],
       [key |-> "L3", given |-> [p |-> Blank, q |-> Blank, n |-> Preset(667), e |-> Preset(7)]] >>

-----------------------------------------------------------------------------
(* RSALevel *)

NoOut == [kind |-> "null", N |-> 0, phi |-> 0, D |-> Null, P |-> 0, Q |-> 0]
MissingKeyError == [kind |-> "errorMissingKey", N |-> 0, phi |-> 0, D |-> Null, P |-> 0, Q |-> 0]
StackError == [kind |-> "errorCallStack", N |-> 0, phi |-> 0, D |-> Null, P |-> 0, Q |-> 0]

isError(o) == o.kind \in {"errorMissingKey", "errorCallStack"}

\* compute with a supplied n kept when p and q are both present.
computedOutKeepN(fp, fq, fn, fe) ==
    LET P0 == fieldNumber(fp)
        Q0 == fieldNumber(fq)
        N0 == fieldNumber(fn)
        E == fieldNumber(fe)
        N1 == IF truthy(P0) /\ truthy(Q0) /\ ~truthy(N0) THEN IntVal(P0.v * Q0.v) ELSE N0
        fac == IF (~truthy(P0) \/ ~truthy(Q0)) /\ truthy(N1)
               THEN trialFactor(N1.v) ELSE <<>>
        P1 == IF fac # <<>> THEN IntVal(fac[1]) ELSE P0
        Q1 == IF fac # <<>> THEN IntVal(fac[2]) ELSE Q0
    IN  IF ~truthy(P1) \/ ~truthy(Q1) \/ ~truthy(N1) THEN MissingKeyError
        ELSE LET phi == (P1.v - 1) * (Q1.v - 1)
                 D == modInv(E, phi)
             IN  IF D = RangeError THEN StackError
                 ELSE [kind |-> "values", N |-> N1.v, phi |-> phi, D |-> D,
                       P |-> P1.v, Q |-> Q1.v]

\* The value compute hands to setOut, from the four fields it reads.
computedOut(fp, fq, fn, fe) ==
    LET P0 == fieldNumber(fp)
        Q0 == fieldNumber(fq)
        N0 == fieldNumber(fn)
        E == fieldNumber(fe)
        N1 == IF truthy(P0) /\ truthy(Q0) THEN IntVal(P0.v * Q0.v) ELSE N0
        fac == IF (~truthy(P0) \/ ~truthy(Q0)) /\ truthy(N1)
               THEN trialFactor(N1.v) ELSE <<>>
        P1 == IF fac # <<>> THEN IntVal(fac[1]) ELSE P0
        Q1 == IF fac # <<>> THEN IntVal(fac[2]) ELSE Q0
    IN  IF ~truthy(P1) \/ ~truthy(Q1) \/ ~truthy(N1) THEN MissingKeyError
        ELSE LET phi == (P1.v - 1) * (Q1.v - 1)
                 D == modInv(E, phi)
             IN  IF D = RangeError THEN StackError
                 ELSE [kind |-> "values", N |-> N1.v, phi |-> phi, D |-> D,
                       P |-> P1.v, Q |-> Q1.v]

RsaIdle ==
    /\ level = "L1"
    /\ p = Blank /\ q = Blank /\ n = Blank /\ e = Blank /\ d = Blank
    /\ hint = "" /\ out = NoOut /\ edits = 0 /\ lastOp = "idle"

\* The useState initialisers of the three RSALevel components
RsaInit ==
    /\ \E i \in DOMAIN rsaLevels :
          /\ level = rsaLevels[i].key
          /\ p = rsaLevels[i].given.p
          /\ q = rsaLevels[i].given.q
          /\ n = rsaLevels[i].given.n
          /\ e = rsaLevels[i].given.e
    /\ d = Blank
    /\ hint = ""
    /\ out = NoOut
    /\ edits = 0
    /\ lastOp = "mount"

\* What the user types into a field
TypedTexts == {Blank, Junk, Text(0), Text(7), Text(15)}

otherVars == <<routerVars, fnVars, attackVars, modInvVars>>

SetP ==
    /\ edits < MaxEdits
    /\ \E v \in TypedTexts : p' = v
    /\ edits' = edits + 1 /\ lastOp' = "edit"
    /\ UNCHANGED <<level, q, n, e, d, hint, out, otherVars>>

SetQ ==
    /\ edits < MaxEdits
    /\ \E v \in TypedTexts : q' = v
    /\ edits' = edits + 1 /\ lastOp' = "edit"
    /\ UNCHANGED <<level, p, n, e, d, hint, out, otherVars>>

SetN ==
    /\ edits < MaxEdits
    /\ \E v \in TypedTexts : n' = v
    /\ edits' = edits + 1 /\ lastOp' = "edit"
    /\ UNCHANGED <<level, p, q, e, d, hint, out, otherVars>>

SetE ==
    /\ edits < MaxEdits
    /\ \E v \in TypedTexts : e' = v
    /\ edits' = edits + 1 /\ lastOp' = "edit"
    /\ UNCHANGED <<level, p, q, n, d, hint, out, otherVars>>

SetD ==
    /\ edits < MaxEdits
    /\ \E v \in TypedTexts : d' = v
    /\ edits' = edits + 1 /\ lastOp' = "edit"
    /\ UNCHANGED <<level, p, q, n, e, hint, out, otherVars>>

\* compute: the try block ends in setOut, and so does the catch block
Compute ==
    /\ out' = computedOut(p, q, n, e)
    /\ lastOp' = "compute"
    /\ UNCHANGED <<level, p, q, n, e, d, hint, edits, otherVars>>

GiveHint ==
    /\ hint' = CASE level = "L3" -> "hintL3"
                 [] level = "L2" -> "hintL2"
                 [] OTHER -> "hintL1"
    /\ lastOp' = "giveHint"
    /\ UNCHANGED <<level, p, q, n, e, d, out, edits, otherVars>>

-----------------------------------------------------------------------------
(* compute as a function of the four fields it reads *)

InputInts == (-2)..MaxIn
InputFields == {Blank, Junk} \cup {Text(i) : i \in InputInts}

ComputeInit ==
    /\ level = "L1"
    /\ p \in InputFields /\ q \in InputFields /\ n \in InputFields /\ e \in InputFields
    /\ d = Blank /\ hint = "" /\ out = NoOut /\ edits = 0 /\ lastOp = "mount"

-----------------------------------------------------------------------------
(* modInv as a function of its arguments *)

Unset == [k |-> "unset", v |-> 0]

ModInvIdle == argA = 0 /\ argM = 1 /\ ret = Unset

ModInvInit ==
    /\ argA \in (-MaxA)..MaxA
    /\ argM \in 1..MaxM
    /\ ret = Unset

CallModInv ==
    /\ ret = Unset
    /\ ret' = modInv(IntVal(argA), argM)
    /\ UNCHANGED <<argA, argM, routerVars, fnVars, attackVars, rsaVars>>

-----------------------------------------------------------------------------
(* Specifications *)

\* The router: a page load, then navigate calls and back and forward events.
Init == RouterInit /\ FnIdle /\ AttackInit /\ RsaIdle /\ ModInvIdle
Next == Navigate \/ Back \/ Forward
Spec == Init /\ [][Next]_vars

\* parseWorkId applied to every pathname under every base.
InitParse == ParseInit /\ AttackInit /\ RsaIdle /\ ModInvIdle
SpecParse == InitParse /\ [][ParsePath]_vars

\* The attack simulator's widget.
AttackNext == SetTargetId \/ SetMethodKey \/ Attack \/ ResetResult
InitAttack == RouterIdle /\ FnIdle /\ AttackInit /\ RsaIdle /\ ModInvIdle
SpecAttack == InitAttack /\ [][AttackNext]_vars

\* One RSALevel component, from its preset.
RsaNext == SetP \/ SetQ \/ SetN \/ SetE \/ SetD \/ Compute \/ GiveHint
InitRSA == RouterIdle /\ FnIdle /\ AttackInit /\ RsaInit /\ ModInvIdle
SpecRSA == InitRSA /\ [][RsaNext]_vars

\* compute applied to every content of the fields p, q, n and e.
InitCompute == RouterIdle /\ FnIdle /\ AttackInit /\ ComputeInit /\ ModInvIdle
SpecCompute == InitCompute /\ [][Compute]_vars

\* modInv applied to every pair of arguments.
InitModInv == RouterIdle /\ FnIdle /\ AttackInit /\ RsaIdle /\ ModInvInit
SpecModInv == InitModInv /\ [][CallModInv]_vars

-----------------------------------------------------------------------------
(* Properties of parseWorkId, under SpecParse *)

\* The path that remains after the base prefix, if the path starts with it.
AfterBase(path, envBase) ==
    LET prefix == getNormalizedBasePath(envBase)
    IN  IF /\ Len(prefix) <= Len(path)
           /\ \A i \in 1..Len(prefix) : path[i] = prefix[i]
        THEN [i \in 1..(Len(path) - Len(prefix)) |-> path[i + Len(prefix)]]
        ELSE path

\* seg is the first non-empty "/"-separated segment of rest.
IsFirstSegment(rest, seg) ==
    \E i \in 1..Len(rest) : \E j \in i..Len(rest) :
        /\ \A k \in 1..(i - 1) : rest[k] = "/"
        /\ \A k \in i..j : rest[k] # "/"
        /\ j = Len(rest) \/ rest[j + 1] = "/"
        /\ seg = [k \in 1..(j - i + 1) |-> rest[k + i - 1]]

\* C3: parseWorkId returns the first non-empty segment of what remains after
\* the base prefix when that segment is "1", "2" or "3", and "all" otherwise.
C3_FirstSegmentOrAll ==
    fnOut # Undefined =>
        LET rest == AfterBase(fnPath, BASE_URL)
        IN  IF \E key \in { <<"1">>, <<"2">>, <<"3">> } : IsFirstSegment(rest, key)
            THEN IsFirstSegment(rest, fnOut)
            ELSE fnOut = <<"a", "l", "l">>

\* A work key found behind a base prefix given without its leading slash.
C3_Witness ==
    /\ BASE_URL = <<"a", "/">>
    /\ fnPath = <<"/", "a", "/", "3">>
    /\ fnOut = <<"3">>

-----------------------------------------------------------------------------
(* Properties of the router, under Spec *)

\* C1, as stated: a back event delivered right after a navigate call, whatever
\* the call did, leaves the identifier that was active before the call.
C1_BackAfterAnyNavigate ==
    trail \in {"backAfterPush", "backAfterSame"} => workId = idBefore

\* C1, amended: a back event delivered right after a navigate call that
\* pushed a history entry leaves the identifier that was active before the call.
C1_BackAfterPushingNavigate ==
    trail = "backAfterPush" => workId = idBefore

\* A navigate that changed the identifier and pushed an entry, then a back
\* event: the entry ahead is the one navigate pushed.
C1_Witness ==
    /\ trail = "backAfterPush"
    /\ workId = idBefore
    /\ parseWorkId(entries[index + 1], BASE_URL) # workId

\* C2: navigate pushes an entry only when the path it built differs from the
\* current path, and so no two adjacent history entries hold the same path.
C2_NoAdjacentDuplicates ==
    /\ trail = "navigatePushed" =>
          LET normalized == IF lastNavId \in WORK_KEY_SET
                            THEN lastNavId ELSE DEFAULT_WORK_ID
          IN  entries[index - 1] # buildPathFromWorkId(normalized, BASE_URL)
    /\ \A i \in 1..(Len(entries) - 1) : entries[i] # entries[i + 1]

\* C4: the active identifier is always "all", "1", "2" or "3", an unknown
\* path or id gives the show-all view, and the not-found section is never
\* rendered.
C4_KnownIdentifierOnly ==
    /\ workId \in { <<"a", "l", "l">>, <<"1">>, <<"2">>, <<"3">> }
    /\ ~rendersNotFound
    /\ (trail \in {"navigatePushed", "navigateSame"}
            /\ lastNavId \notin { <<"1">>, <<"2">>, <<"3">> }) => rendersAllWorks
    /\ (trail = "load"
            /\ ~\E key \in { <<"1">>, <<"2">>, <<"3">> } :
                   IsFirstSegment(AfterBase(pathname, BASE_URL), key)) => rendersAllWorks

\* navigate called with an id that is no work key, from a single work's view.
C4_Witness ==
    /\ trail = "navigatePushed"
    /\ lastNavId = <<"4">>
    /\ idBefore = <<"2">>
    /\ rendersAllWorks

-----------------------------------------------------------------------------
(* Properties of modInv, under SpecModInv *)

Coprime(a, m) == \A g \in 2..m : ~(a % g = 0 /\ m % g = 0)

\* C5, as stated: for m >= 1 and gcd(e, m) = 1, modInv(e, m) is a d with
\* (e * d) mod m = 1.
C5_InverseForEveryModulus ==
    (ret # Unset /\ argM >= 1 /\ Coprime(argA, argM)) =>
        (ret.k = "int" /\ (argA * ret.v) % argM = 1)

\* C5, amended: for m >= 2 and gcd(e, m) = 1, modInv(e, m) is a d with
\* (e * d) mod m = 1.
C5_InverseForModulusAtLeastTwo ==
    (ret # Unset /\ argM >= 2 /\ Coprime(argA, argM)) =>
        (ret.k = "int" /\ (argA * ret.v) % argM = 1)

\* The inverse of a negative e modulo phi(3 * 11).
C5_Witness ==
    /\ argA = -3 /\ argM = 20
    /\ ret = IntVal(13)

-----------------------------------------------------------------------------
(* Properties of compute, under SpecCompute and SpecRSA *)

\* x and y are congruent modulo m
Congruent(x, y, m) == IF m = 0 THEN x = y ELSE (x - y) % abs(m) = 0

\* C6: a result that is no error has N = P * Q and phi = (P - 1) * (Q - 1),
\* and a d it reports has d * e congruent to 1 modulo phi.
C6_ResolvedTuple ==
    out.kind = "values" =>
        /\ out.N = out.P * out.Q
        /\ out.phi = (out.P - 1) * (out.Q - 1)
        /\ out.D.k = "int" => Congruent(out.D.v * fieldNumber(e).v, 1, out.phi)

\* A supplied n that disagrees with p * q, overridden, with an inverse found.
C6_Witness ==
    /\ p = Text(3) /\ q = Text(5) /\ n = Text(9) /\ e = Text(3)
    /\ out.kind = "values" /\ out.N = 15 /\ out.D = IntVal(3)

\* A field that the code takes as supplied: a text that is a number other than 0.
Supplied(f) == f.k \in {"num", "text"} /\ f.v # 0

HasSmallDivisor(m) == \E k \in 2..m : k * k <= m /\ m % k = 0

\* p, q or n is unresolved after the p * q step and the trial division.
Unresolved ==
    /\ ~(Supplied(p) /\ Supplied(q))
    /\ ~(Supplied(n) /\ HasSmallDivisor(n.v))

\* C7: compute ends in the error result exactly when p, q or n is unresolved.
C7_ErrorExactlyWhenUnresolved ==
    lastOp = "compute" => (isError(out) <=> Unresolved)

\* C8: compute on the unmodified L3 preset finds p = 23 and q = 29, reports
\* phi = 616 and a d with (7 * d) mod 616 = 1.
C8_PresetL3 ==
    (level = "L3" /\ edits = 0 /\ out # NoOut) =>
        /\ out.kind = "values"
        /\ out.P = 23 /\ out.Q = 29 /\ out.phi = 616
        /\ out.D.k = "int" /\ (7 * out.D.v) % 616 = 1

\* C9: compute on the unmodified L1 preset reports n = 391, phi = 352, d = 235.
C9_PresetL1 ==
    (level = "L1" /\ edits = 0 /\ out # NoOut) =>
        /\ out.kind = "values"
        /\ out.N = 391 /\ out.phi = 352 /\ out.D = IntVal(235)

C9_Witness ==
    /\ level = "L1" /\ edits = 0 /\ lastOp = "compute"
    /\ p = Preset(17) /\ q = Preset(23) /\ n = Blank /\ e = Preset(3)
    /\ out.kind = "values"

-----------------------------------------------------------------------------
(* Properties of simulateAttack, under SpecAttack *)

AccountOf(id) == CHOOSE a \in {demoAccounts[i] : i \in DOMAIN demoAccounts} : a.id = id
MethodOf(key) == CHOOSE m \in {attackMethods[i] : i \in DOMAIN attackMethods} : m.key = key
TrueFlags(flags) == {f \in DOMAIN flags : flags[f]}
Elements(seq) == {seq[i] : i \in DOMAIN seq}

\* C10: no exploited flag true among the vulnerabilities: failure, no matching
\* vulnerability; else a blocking flag true among the controls: failure,
\* blocked; else success. A with leak succeeds, C with guess has no matching
\* vulnerability, B with phish is blocked.
C10_ThreeWayDecision ==
    attacked # <<"none", "none">> =>
        LET account == AccountOf(attacked[1])
            meth == MethodOf(attacked[2])
        IN  /\ result =
                 IF Elements(meth.exploits) \cap TrueFlags(account.vulns) = {}
                 THEN [success |-> FALSE, reason |-> "noMatchingVulnerability"]
                 ELSE IF Elements(meth.blockedBy) \cap TrueFlags(account.controls) # {}
                 THEN [success |-> FALSE, reason |-> "blockedByControl"]
                 ELSE [success |-> TRUE, reason |-> "matchedAndUnblocked"]
            /\ attacked = <<"userA", "leak">> => result.success
            /\ attacked = <<"userC", "guess">> =>
                 (~result.success /\ result.reason = "noMatchingVulnerability")
            /\ attacked = <<"userB", "phish">> =>
                 (~result.success /\ result.reason = "blockedByControl")

\* B attacked by leak: a control would block, but no vulnerability matches.
C10_Witness ==
    /\ attacked = <<"userB", "leak">>
    /\ result = [success |-> FALSE, reason |-> "noMatchingVulnerability"]

-----------------------------------------------------------------------------
(* The identifier and the location, under Spec *)

\* C11: after the load and after every navigate, back or forward event, the
\* identifier the router holds is parseWorkId of the current location path.
C11_IdentifierMatchesLocation ==
    workId = parseWorkId(pathname, BASE_URL)

\* Under a relative base: navigate("2") pushed "/./2", kept as "/2", and the
\* entry was left by a back event and reached again by a forward event.
C11_Witness ==
    /\ BASE_URL = <<".", "/">>
    /\ trail = "forward"
    /\ pathname = <<"/", "2">>
    /\ workId = <<"2">>

====
